---- MODULE Spec2Model ----
(***************************************************************************)
(* Model of linkeddeepdict.LinkedDeepDict: a nested dictionary whose nodes *)
(* carry a parent back-reference, a cached root, their key in the parent   *)
(* and a tri-state lock flag.  Nodes live in an arena 1..MaxNodes; the     *)
(* per-node storage is an insertion-ordered key/value list (the built-in   *)
(* mapping the class delegates to through super()).                        *)
(***************************************************************************)
EXTENDS Integers, Sequences, FiniteSets, TLC

\* ---------------------------------------------------------------- bounds
\* MaxNodes is the size of the arena, MaxLive the number of nodes the
\* general client lets exist, MaxLen the longest path it passes and MaxSteps
\* the number of calls it makes.
MaxNodes == 8
MaxLive == 3
MaxLen == 2
MaxSteps == 4

\* ------------------------------------------------------------ value space
None == 0
NoKey == "None"
Nodes == 1..MaxNodes
Leaves == {11, 12}
Keys == {"a", "b"}

\* Plain nested mappings handed to the constructor: {"a": 11} and
\* {"b": {"a": 11}}.
Maps == {21, 22}
MapEntries(m) ==
  IF m = 21 THEN <<[k |-> "a", v |-> 11]>> ELSE <<[k |-> "b", v |-> 21]>>

IsNode(v) == v \in Nodes
IsLeaf(v) == v # None /\ ~IsNode(v)

\* A key argument: a plain hashable key, a list (non-hashable sequence) or a
\* tuple (hashable sequence) of plain keys.
RECURSIVE SeqsUpTo(_)
SeqsUpTo(n) ==
  IF n = 0 THEN {<<>>}
  ELSE LET S == SeqsUpTo(n - 1)
       IN S \cup {Append(p, k) : p \in {q \in S : Len(q) = n - 1}, k \in Keys}

Plain(k) == [kind |-> "plain", path |-> <<k>>]
List(p) == [kind |-> "list", path |-> p]
Tuple(p) == [kind |-> "tuple", path |-> p]

KeyArgs ==
  {Plain(k) : k \in Keys}
    \cup {List(p) : p \in SeqsUpTo(MaxLen)}
    \cup {Tuple(p) : p \in SeqsUpTo(MaxLen)}

issequence(key) == key.kind \in {"list", "tuple"}
Hashable(key) == key.kind \in {"plain", "tuple"}
First(key) == Plain(Head(key.path))
Rest(key) == [kind |-> key.kind, path |-> Tail(key.path)]

\* ------------------------------------------------------- storage primitive
\* One node's entries: a sequence of [k, v] records in insertion order.
DictHas(d, k) == \E i \in 1..Len(d) : d[i].k = k
DictIdx(d, k) == CHOOSE i \in 1..Len(d) : d[i].k = k
DictGet(d, k) == d[DictIdx(d, k)].v
DictSet(d, k, v) ==
  IF DictHas(d, k)
  THEN [d EXCEPT ![DictIdx(d, k)] = [k |-> k, v |-> v]]
  ELSE Append(d, [k |-> k, v |-> v])
DictDel(d, k) ==
  LET i == DictIdx(d, k)
  IN SubSeq(d, 1, i - 1) \o SubSeq(d, i + 1, Len(d))
DictKeys(d) == {d[i].k : i \in 1..Len(d)}
DictValues(d) == {d[i].v : i \in 1..Len(d)}

\* ------------------------------------------------------------------ state
VARIABLES data, parent, _root, _key, _locked, next, steps

vars == <<data, parent, _root, _key, _locked, next, steps>>

\* The heap as one value, passed through the operations.
Cur ==
  [data |-> data, parent |-> parent, root |-> _root, key |-> _key,
   locked |-> _locked, next |-> next]

Ok(s, v) == [s |-> s, err |-> "", ret |-> v, b |-> FALSE]
OkB(s, b) == [s |-> s, err |-> "", ret |-> None, b |-> b]
Raise(s, e) == [s |-> s, err |-> e, ret |-> None, b |-> FALSE]

\* --------------------------------------------------------------- linkage
\* The locked property: own flag when it is a bool, else the parent's.  The
\* recursion has no cycle check; a walk longer than the arena can only be a
\* cycle of parent links, on which the interpreter raises RecursionError.
RECURSIVE lockedWalk(_, _, _)
lockedWalk(s, n, fuel) ==
  IF fuel = 0 THEN "RecursionError"
  ELSE IF s.parent[n] = None
    THEN (IF s.locked[n] \in {"True", "False"} THEN s.locked[n] ELSE "False")
    ELSE (IF s.locked[n] \in {"True", "False"} THEN s.locked[n]
          ELSE lockedWalk(s, s.parent[n], fuel - 1))

\* The property without its else branch: an unset flag reads as unlocked.
locked_own_flag_only(s, n) ==
  IF s.locked[n] \in {"True", "False"} THEN s.locked[n] ELSE "False"

locked(s, n) == lockedWalk(s, n, MaxNodes)

\* "if self.locked: raise ..." in front of a body.
Guarded(l, s, e, body) ==
  IF l = "RecursionError" THEN Raise(s, l)
  ELSE IF l = "True" THEN Raise(s, e)
  ELSE body

RECURSIVE rootWalk(_, _, _)
rootWalk(s, n, fuel) ==
  IF fuel = 0 THEN Raise(s, "RecursionError")
  ELSE IF s.parent[n] = None THEN Ok(s, n)
  ELSE IF s.root[n] # None THEN Ok(s, s.root[n])
  ELSE rootWalk(s, s.parent[n], fuel - 1)

root(s, n) == rootWalk(s, n, MaxNodes)

is_root(s, n) == s.parent[n] = None

\* The depth property: 0 at a node with no parent, else the parent's + 1.
RECURSIVE depthWalk(_, _, _)
depthWalk(s, n, fuel) ==
  IF fuel = 0 THEN [err |-> "RecursionError", ret |-> 0]
  ELSE IF s.parent[n] = None THEN [err |-> "", ret |-> 0]
  ELSE [err |-> depthWalk(s, s.parent[n], fuel - 1).err,
        ret |-> depthWalk(s, s.parent[n], fuel - 1).ret + 1]

depth(s, n) == depthWalk(s, n, MaxNodes)

\* The address property: a new empty list at a root, else the list the
\* parent's address returned with the node's own key appended.
RECURSIVE addressWalk(_, _, _)
addressWalk(s, n, fuel) ==
  IF fuel = 0 THEN [err |-> "RecursionError", ret |-> <<>>]
  ELSE IF is_root(s, n) THEN [err |-> "", ret |-> <<>>]
  ELSE [err |-> addressWalk(s, s.parent[n], fuel - 1).err,
        ret |-> Append(addressWalk(s, s.parent[n], fuel - 1).ret, s.key[n])]

address(s, n) == addressWalk(s, n, MaxNodes)

__leave_parent__(s, n) ==
  [s EXCEPT !.parent[n] = None, !.root[n] = None, !.key[n] = NoKey]

\* self._root = parent.root(); self._key = key
JoinRoot(s1, r, n, k) ==
  IF r.err # "" THEN Raise(s1, r.err)
  ELSE Ok([s1 EXCEPT !.root[n] = r.ret, !.key[n] = k], None)

\* self.parent = parent, then the two assignments above.
JoinLink(s1, n, p, k) == JoinRoot(s1, root(s1, p), n, k)

__join_parent__(s, n, p, k) == JoinLink([s EXCEPT !.parent[n] = p], n, p, k)

\* The constructor without arguments: a fresh empty node.  An exhausted arena
\* is a limit of the model, not of the program; the actions exclude it.
__init__(s) ==
  IF s.next >= MaxNodes THEN Raise(s, "OutOfNodes")
  ELSE Ok([s EXCEPT !.data[s.next + 1] = <<>>, !.parent[s.next + 1] = None,
                    !.root[s.next + 1] = None, !.locked[s.next + 1] = "None",
                    !.key[s.next + 1] = NoKey, !.next = s.next + 1],
          s.next + 1)

\* The loop of __init__ over the keyword arguments: a node among them gets
\* the new node as parent and its name as key.
RECURSIVE KwargsLink(_, _, _, _)
KwargsLink(s, new, kwargs, i) ==
  IF i > Len(kwargs) THEN s
  ELSE KwargsLink(IF IsNode(kwargs[i].v)
                  THEN [s EXCEPT !.parent[kwargs[i].v] = new,
                                 !.key[kwargs[i].v] = kwargs[i].k]
                  ELSE s, new, kwargs, i + 1)

\* super().__init__(*args, **kwargs): the entries of the positional mapping
\* updated with the keyword arguments, every value stored as it is.
RECURSIVE DictUpdate(_, _, _)
DictUpdate(d, kwargs, i) ==
  IF i > Len(kwargs) THEN d
  ELSE DictUpdate(DictSet(d, kwargs[i].k, kwargs[i].v), kwargs, i + 1)

\* The constructor with arguments: args is the positional mapping, kwargs
\* the named values, par, rt and lk the parent, root and locked parameters.
__init__args(s, args, kwargs, par, rt, lk) ==
  IF s.next >= MaxNodes THEN Raise(s, "OutOfNodes")
  ELSE Ok([KwargsLink(s, s.next + 1, kwargs, 1)
             EXCEPT !.data[s.next + 1] = DictUpdate(args, kwargs, 1),
                    !.parent[s.next + 1] = par,
                    !.root[s.next + 1] = rt,
                    !.locked[s.next + 1] = lk,
                    !.key[s.next + 1] = NoKey,
                    !.next = s.next + 1],
          s.next + 1)

lock(s, n) == [s EXCEPT !.locked[n] = "True"]
unlock(s, n) == [s EXCEPT !.locked[n] = "False"]

\* ------------------------------------------- the mapping behind super()
\* No tuple is ever stored as a key, so a tuple is never a member.
dict_contains(s, n, key) ==
  key.kind = "plain" /\ DictHas(s.data[n], key.path[1])

dict_getitem(s, n, key) ==
  IF dict_contains(s, n, key) THEN Ok(s, DictGet(s.data[n], key.path[1]))
  ELSE Raise(s, "KeyError")

dict_delitem(s, n, key) ==
  IF ~Hashable(key) THEN Raise(s, "TypeError")
  ELSE IF dict_contains(s, n, key)
    THEN Ok([s EXCEPT !.data[n] = DictDel(@, key.path[1])], None)
    ELSE Raise(s, "KeyError")

dict_setitem(s, n, k, v) == [s EXCEPT !.data[n] = DictSet(@, k, v)]

\* ------------------------------------------------------------ operations
\* Every call returns [s, err, ret, b]: the heap it leaves, the exception it
\* raised ("" for none), the value and the boolean it returned.
RECURSIVE containsWalk(_, _, _)
RECURSIVE __getitem__(_, _, _)
RECURSIVE parseWalk(_, _, _)
RECURSIVE __missing__(_, _, _)
RECURSIVE __setitem__(_, _, _, _)

\* The for loop of __contains__ over the items of a list path: membership
\* of the item in obj, then obj[item], which is present.
containsWalk(s, obj, path) ==
  IF path = <<>> THEN OkB(s, TRUE)
  ELSE IF ~IsNode(obj) THEN Raise(s, "AttributeError")
  ELSE IF dict_contains(s, obj, Plain(Head(path)))
    THEN containsWalk(s, DictGet(s.data[obj], Head(path)), Tail(path))
    ELSE OkB(s, FALSE)

__contains__(s, n, key) ==
  IF ~Hashable(key) /\ issequence(key)
  THEN (IF Len(key.path) = 0 THEN Raise(s, "ValueError")
        ELSE containsWalk(s, n, key.path))
  ELSE IF Hashable(key) THEN OkB(s, dict_contains(s, n, key))
  ELSE Raise(s, "TypeError")

\* tools.dtk.parseaddress: repeated single-key lookup along the address.
ParseStep(g, rest) ==
  IF g.err # "" THEN g ELSE parseWalk(g.s, g.ret, rest)

parseWalk(s, obj, path) ==
  IF path = <<>> THEN Ok(s, obj)
  ELSE IF ~IsNode(obj) THEN Raise(s, "TypeError")
  ELSE ParseStep(__getitem__(s, obj, Plain(Head(path))), Tail(path))

parseaddress(s, n, key) ==
  IF Len(key.path) = 0 THEN Raise(s, "ValueError")
  ELSE parseWalk(s, n, key.path)

\* except ValueError / except KeyError: return self.__missing__(key)
GetExcept(r, n, key) ==
  IF r.err \in {"ValueError", "KeyError"} THEN __missing__(r.s, n, key)
  ELSE r

__getitem__(s, n, key) ==
  GetExcept(IF issequence(key) THEN parseaddress(s, n, key)
            ELSE dict_getitem(s, n, key), n, key)

\* __delitem__ without its first two lines: a locked node loses entries.
delitem_ignoring_lock(s, n, key) == dict_delitem(s, n, key)

\* __delitem__ with its two statements swapped: the entry goes first, the
\* lock is looked at afterwards.
delitem_before_lock_check(s, n, key) ==
  Guarded(locked(s, n), dict_delitem(s, n, key).s, "RuntimeError",
          dict_delitem(s, n, key))

__delitem__(s, n, key) ==
  Guarded(locked(s, n), s, "RuntimeError", dict_delitem(s, n, key))

\* self[k] = value = self.__class__(): the node is built, then stored.
VivifyRet(w, v) == IF w.err # "" THEN w ELSE Ok(w.s, v)

VivifySet(a, n, key) ==
  IF a.err # "" THEN a
  ELSE VivifyRet(__setitem__(a.s, n, key, a.ret), a.ret)

Vivify(s, n, key) == VivifySet(__init__(s), n, key)

\* After the first segment of a path is resolved to v.
MissingRest(v, key) ==
  IF v.err # "" THEN v
  ELSE IF Len(key.path) > 1
    THEN (IF IsNode(v.ret) THEN __missing__(v.s, v.ret, Rest(key))
          ELSE Raise(v.s, "AttributeError"))
    ELSE v

MissingBody(s, n, key) ==
  IF issequence(key)
  THEN (IF Len(key.path) = 0 THEN Raise(s, "IndexError")
        ELSE MissingRest(IF ~dict_contains(s, n, First(key))
                         THEN Vivify(s, n, First(key))
                         ELSE dict_getitem(s, n, First(key)), key))
  ELSE Vivify(s, n, key)

\* __missing__ without its first two lines: a locked node autovivifies too.
missing_ignoring_lock(s, n, key) == MissingBody(s, n, key)

__missing__(s, n, key) ==
  Guarded(locked(s, n), s, "KeyError", MissingBody(s, n, key))

\* A call whose return value the caller drops.
Discard(x) == IF x.err # "" THEN x ELSE Ok(x.s, None)

\* The last segment of a path: s3 is the heap after the old value left.
SetLastStore(s3, n, key, value) ==
  IF value = None THEN __delitem__(s3, n, First(key))
  ELSE Discard(__setitem__(s3, n, First(key), value))

SetLast(d2, n, key, value) ==
  IF d2.err # "" THEN d2
  ELSE SetLastStore(IF IsNode(d2.ret) THEN __leave_parent__(d2.s, d2.ret)
                    ELSE d2.s, n, key, value)

\* d is the value of the first segment, found or created.
SetPathAt(d, n, key, value) ==
  IF d.err # "" THEN d
  ELSE IF Len(key.path) > 1
    THEN (IF IsNode(d.ret)
          THEN Discard(__setitem__(d.s, d.ret, Rest(key), value))
          ELSE Raise(d.s, "AttributeError"))
    ELSE SetLast(dict_getitem(d.s, n, First(key)), n, key, value)

\* The branch of __setitem__ for a sequence key.
SetPath(s, n, key, value) ==
  IF Len(key.path) = 0 THEN Raise(s, "IndexError")
  ELSE SetPathAt(IF ~dict_contains(s, n, First(key))
                 THEN __missing__(s, n, First(key))
                 ELSE dict_getitem(s, n, First(key)), n, key, value)

SetPlainJoin(j, n, key, value) ==
  IF j.err # "" THEN j
  ELSE Ok(dict_setitem(j.s, n, key.path[1], value), None)

\* s1 is the heap after the old value of the slot, if a node, left.
SetPlainStore(s1, n, key, value) ==
  IF value = None
  THEN (IF dict_contains(s1, n, key) THEN __delitem__(s1, n, key)
        ELSE Ok(s1, None))
  ELSE SetPlainJoin(IF IsNode(value)
                    THEN __join_parent__(s1, value, n, key.path[1])
                    ELSE Ok(s1, None), n, key, value)

\* The branch of __setitem__ for a plain key.
SetPlain(s, n, key, value) ==
  SetPlainStore(IF dict_contains(s, n, key)
                   /\ IsNode(DictGet(s.data[n], key.path[1]))
                THEN __leave_parent__(s, DictGet(s.data[n], key.path[1]))
                ELSE s, n, key, value)

\* except KeyError: return self.__missing__(key)
SetExcept(body, n, key) ==
  IF body.err = "KeyError" THEN __missing__(body.s, n, key) ELSE body

\* __setitem__ without its first two lines: the lock is not looked at.
setitem_ignoring_lock(s, n, key, value) ==
  SetExcept(IF issequence(key) THEN SetPath(s, n, key, value)
            ELSE SetPlain(s, n, key, value), n, key)

__setitem__(s, n, key, value) ==
  Guarded(locked(s, n), s, "RuntimeError",
          SetExcept(IF issequence(key) THEN SetPath(s, n, key, value)
                    ELSE SetPlain(s, n, key, value), n, key))

\* ------------------------------------------------------------- traversal
\* A generator run to its end: the items it yielded and the exception that
\* ended it ("" when it was exhausted).  Items are [at, v]: the address (or
\* the one key) and the value.
Gen(out, e) == [out |-> out, err |-> e]
GenThen(head, rest) ==
  IF head.err # "" THEN head ELSE Gen(head.out \o rest.out, rest.err)

\* tools.dtk.dictparser: depth-first over the entries in insertion order,
\* a node expanded in place, a leaf yielded with its address.  A nesting
\* deeper than the arena is a cycle of entries: RecursionError.
RECURSIVE dictparserFrom(_, _, _, _, _)
dictparserFrom(s, n, i, addr, fuel) ==
  IF i > Len(s.data[n]) THEN Gen(<<>>, "")
  ELSE GenThen(
         IF IsNode(s.data[n][i].v)
         THEN (IF fuel = 0 THEN Gen(<<>>, "RecursionError")
               ELSE dictparserFrom(s, s.data[n][i].v, 1,
                                   Append(addr, s.data[n][i].k), fuel - 1))
         ELSE Gen(<<[at |-> Append(addr, s.data[n][i].k),
                     v |-> s.data[n][i].v]>>, ""),
         dictparserFrom(s, n, i + 1, addr, fuel))

dictparser(s, n) == dictparserFrom(s, n, 1, <<>>, MaxNodes)

\* tools.dtk.parseitems: the same walk, a leaf yielded with its own key.
RECURSIVE parseitemsFrom(_, _, _, _)
parseitemsFrom(s, n, i, fuel) ==
  IF i > Len(s.data[n]) THEN Gen(<<>>, "")
  ELSE GenThen(
         IF IsNode(s.data[n][i].v)
         THEN (IF fuel = 0 THEN Gen(<<>>, "RecursionError")
               ELSE parseitemsFrom(s, s.data[n][i].v, 1, fuel - 1))
         ELSE Gen(<<[at |-> <<s.data[n][i].k>>, v |-> s.data[n][i].v]>>, ""),
         parseitemsFrom(s, n, i + 1, fuel))

parseitems(s, n) == parseitemsFrom(s, n, 1, MaxNodes)

\* super().items(): the node's own entries, nodes among them as they are.
dict_items(s, n) ==
  Gen([i \in 1..Len(s.data[n]) |->
         [at |-> <<s.data[n][i].k>>, v |-> s.data[n][i].v]], "")

items(s, n, deep, return_address) ==
  IF deep THEN (IF return_address THEN dictparser(s, n) ELSE parseitems(s, n))
  ELSE dict_items(s, n)

\* tools.dtk.parsedicts: the queried node first when inclusive, then every
\* entry that is a node, expanded in place when deep.
RECURSIVE parsedictsFrom(_, _, _, _, _)
parsedictsFrom(s, n, i, deep, fuel) ==
  IF i > Len(s.data[n]) THEN Gen(<<>>, "")
  ELSE GenThen(
         IF ~IsNode(s.data[n][i].v) THEN Gen(<<>>, "")
         ELSE IF ~deep THEN Gen(<<s.data[n][i].v>>, "")
         ELSE IF fuel = 0 THEN Gen(<<>>, "RecursionError")
         ELSE GenThen(Gen(<<s.data[n][i].v>>, ""),
                      parsedictsFrom(s, s.data[n][i].v, 1, deep, fuel - 1)),
         parsedictsFrom(s, n, i + 1, deep, fuel))

parsedicts(s, n, inclusive, deep) ==
  GenThen(Gen(IF inclusive THEN <<n>> ELSE <<>>, ""),
          parsedictsFrom(s, n, 1, deep, MaxNodes))

\* containers() passing parsedicts its own default, inclusive=True.
containers_inclusive(s, n, inclusive, deep) == parsedicts(s, n, TRUE, deep)

containers(s, n, inclusive, deep) == parsedicts(s, n, inclusive, deep)

\* ----------------------------------------------------- the client's calls
Allocated == 1..next
Values == {None} \cup Leaves \cup Allocated

\* One call of the client: the heap becomes the one the call leaves behind,
\* whether it returned or raised.
Apply(r) ==
  /\ steps < MaxSteps
  /\ r.err # "OutOfNodes"
  /\ r.s.next <= MaxLive
  /\ data' = r.s.data
  /\ parent' = r.s.parent
  /\ _root' = r.s.root
  /\ _key' = r.s.key
  /\ _locked' = r.s.locked
  /\ next' = r.s.next
  /\ steps' = steps + 1

Init ==
  /\ data = [n \in Nodes |-> <<>>]
  /\ parent = [n \in Nodes |-> None]
  /\ _root = [n \in Nodes |-> None]
  /\ _key = [n \in Nodes |-> NoKey]
  /\ _locked = [n \in Nodes |-> "None"]
  /\ next = 1
  /\ steps = 0

Construct ==
  /\ next < MaxLive
  /\ Apply(__init__(Cur))

Get == \E n \in Allocated, key \in KeyArgs :
  Apply(__getitem__(Cur, n, key))

Set == \E n \in Allocated, key \in KeyArgs, v \in Values :
  Apply(__setitem__(Cur, n, key, v))

Delete == \E n \in Allocated, key \in KeyArgs :
  Apply(__delitem__(Cur, n, key))

Contains == \E n \in Allocated, key \in KeyArgs :
  Apply(__contains__(Cur, n, key))

Lock == \E n \in Allocated :
  Apply(Ok(lock(Cur, n), None))

Unlock == \E n \in Allocated :
  Apply(Ok(unlock(Cur, n), None))

Next == Construct \/ Get \/ Set \/ Delete \/ Contains \/ Lock \/ Unlock

Spec == Init /\ [][Next]_vars

\* The same client when every call it makes returns normally: the states
\* reached through completed operations only.
Returned(r) == Apply(r) /\ r.err = ""

ConstructOk ==
  /\ next < MaxLive
  /\ Returned(__init__(Cur))

GetOk == \E n \in Allocated, key \in KeyArgs :
  Returned(__getitem__(Cur, n, key))

SetOk == \E n \in Allocated, key \in KeyArgs, v \in Values :
  Returned(__setitem__(Cur, n, key, v))

DeleteOk == \E n \in Allocated, key \in KeyArgs :
  Returned(__delitem__(Cur, n, key))

ContainsOk == \E n \in Allocated, key \in KeyArgs :
  Returned(__contains__(Cur, n, key))

NextOk ==
  ConstructOk \/ GetOk \/ SetOk \/ DeleteOk \/ ContainsOk \/ Lock \/ Unlock

SpecOk == Init /\ [][NextOk]_vars

\* ------------------------------------------------------- reconstruction
\* __reduce__ names the class, no arguments and the shallow items: a copy is
\* the class called without arguments on which every (key, value) of items()
\* is replayed as copy[key] = value, a value that is a node being copied the
\* same way first, and a node met a second time being the copy made of it.
\* A run carries the heap s, the copies made so far (memo) and the error.
RECURSIVE rebuild(_, _)
RECURSIVE rebuildItems(_, _, _)

\* copy[key] = value for the entries of n from the i-th on.
RECURSIVE replay(_, _, _, _)
replay(st, n, new, i) ==
  IF st.err # "" \/ i > Len(st.s.data[n])
  THEN [s |-> st.s, memo |-> st.memo, err |-> st.err, ret |-> new]
  ELSE LET w == __setitem__(st.s, new, Plain(st.s.data[n][i].k), st.vals[i])
       IN replay([st EXCEPT !.s = w.s, !.err = w.err], n, new, i + 1)

\* The values of the entries of n from the i-th on, nodes copied.
rebuildItems(st, n, i) ==
  IF st.err # "" \/ i > Len(st.s.data[n]) THEN st
  ELSE IF IsNode(st.s.data[n][i].v)
    THEN LET r == rebuild([s |-> st.s, memo |-> st.memo, err |-> st.err],
                          st.s.data[n][i].v)
         IN rebuildItems([s |-> r.s, memo |-> r.memo, err |-> r.err,
                          vals |-> Append(st.vals, r.ret)], n, i + 1)
    ELSE rebuildItems([st EXCEPT !.vals = Append(@, st.s.data[n][i].v)],
                      n, i + 1)

rebuild(st, n) ==
  IF st.memo[n] # None
  THEN [s |-> st.s, memo |-> st.memo, err |-> st.err, ret |-> st.memo[n]]
  ELSE LET c == __init__(st.s)
       IN IF c.err # ""
          THEN [s |-> c.s, memo |-> st.memo, err |-> c.err, ret |-> None]
          ELSE replay(rebuildItems([s |-> c.s,
                                    memo |-> [st.memo EXCEPT ![n] = c.ret],
                                    err |-> "", vals |-> <<>>], n, 1),
                      n, c.ret, 1)

__reduce__(s, n) ==
  rebuild([s |-> s, memo |-> [m \in Nodes |-> None], err |-> ""], n)

\* The client that builds nodes from arguments: a positional mapping of at
\* most one entry (a leaf or a plain nested mapping), at most one named value
\* (a leaf or an existing node), and the parent and locked parameters.
ArgsIn == {<<>>} \cup {<<[k |-> k, v |-> v]>> : k \in Keys, v \in Leaves \cup Maps}
KwargsIn == {<<>>} \cup {<<[k |-> k, v |-> v]>> : k \in Keys, v \in Leaves \cup Allocated}
LockedIn == {"None", "True", "False"}

ConstructFrom ==
  \E args \in ArgsIn, kwargs \in KwargsIn, par \in {None} \cup Allocated,
     lk \in LockedIn :
    /\ next < MaxLive
    /\ Apply(__init__args(Cur, args, kwargs, par, par, lk))

NextFrom == ConstructFrom \/ Lock \/ Unlock

SpecFrom == Init /\ [][NextFrom]_vars

\* ============================================================= properties
\* What a call made in the current state would do.
DoSet(n, key, v) == __setitem__(Cur, n, key, v)
DoDel(n, key) == __delitem__(Cur, n, key)
DoGet(n, key) == __getitem__(Cur, n, key)
DoIn(n, key) == __contains__(Cur, n, key)

Detached(s, x) ==
  s.parent[x] = None /\ s.root[x] = None /\ s.key[x] = NoKey

\* One-segment keys naming the slot k: the plain key and the paths [k], (k,).
SlotKeys(k) == {Plain(k), List(<<k>>), Tuple(<<k>>)}

\* C1: every node stored as an entry of a node A under key k has A as its
\* parent and k as its own key, in every state the calls can reach.
C1_Linkage ==
  \A a \in Allocated : \A i \in 1..Len(data[a]) :
    IsNode(data[a][i].v) =>
      /\ parent[data[a][i].v] = a
      /\ _key[data[a][i].v] = data[a][i].k

\* C2: a successful set(k, Y) on P whose slot k holds a node X other than Y
\* leaves X detached and stored nowhere in P, and a node Y attached to P
\* under k with P's root as its cached root.
C2_DetachOnOverwrite ==
  \A p \in Allocated : \A k \in Keys : \A y \in Values :
    LET x == IF DictHas(data[p], k) THEN DictGet(data[p], k) ELSE None
        r == DoSet(p, Plain(k), y)
    IN (IsNode(x) /\ x # y /\ r.err = "") =>
         /\ Detached(r.s, x)
         /\ x \notin DictValues(r.s.data[p])
         /\ IsNode(y) =>
              /\ r.s.parent[y] = p
              /\ r.s.key[y] = k
              /\ root(r.s, p).err = ""
              /\ r.s.root[y] = root(r.s, p).ret

\* C3: a successful delete(k) on an unlocked P whose slot k holds a node X
\* removes k from P and leaves X detached.
C3_DetachOnDelete ==
  \A p \in Allocated : \A k \in Keys :
    LET x == IF DictHas(data[p], k) THEN DictGet(data[p], k) ELSE None
        r == DoDel(p, Plain(k))
    IN (IsNode(x) /\ locked(Cur, p) = "False" /\ r.err = "") =>
         /\ ~DictHas(r.s.data[p], k)
         /\ Detached(r.s, x)

\* The node reached from n along the first i segments of path in heap s, or
\* None when a segment is absent or a leaf is in the way.
RECURSIVE Descend(_, _, _, _)
Descend(s, n, path, i) ==
  IF i = 0 THEN n
  ELSE LET m == Descend(s, n, path, i - 1)
       IN IF IsNode(m) /\ DictHas(s.data[m], path[i])
          THEN DictGet(s.data[m], path[i]) ELSE None

Prefix(key, i) == [kind |-> key.kind, path |-> SubSeq(key.path, 1, i)]
Extend(key, x) == [kind |-> key.kind, path |-> Append(key.path, x)]

\* What C4 promises of set(key, v) on node n, given the heap r it leaves:
\* len-1 new nodes chained under the segments, the leaf readable at the
\* path, every prefix contained and no other key contained under a prefix.
C4_Post(n, key, v, r) ==
  LET len == Len(key.path)
  IN /\ r.err = ""
     /\ \A i \in 1..(len - 1) :
          LET m == Descend(r.s, n, key.path, i)
          IN /\ m \in (next + 1)..r.s.next
             /\ r.s.parent[m] = Descend(r.s, n, key.path, i - 1)
             /\ r.s.key[m] = key.path[i]
     /\ Cardinality({Descend(r.s, n, key.path, i) : i \in 1..(len - 1)})
          = len - 1
     /\ __getitem__(r.s, n, key).err = ""
     /\ __getitem__(r.s, n, key).ret = v
     /\ \A i \in 1..len :
          /\ __contains__(r.s, n, Prefix(key, i)).err = ""
          /\ __contains__(r.s, n, Prefix(key, i)).b
     /\ \A i \in 1..(len - 1) : \A x \in Keys \ {key.path[i + 1]} :
          /\ __contains__(r.s, n, Extend(Prefix(key, i), x)).err = ""
          /\ ~__contains__(r.s, n, Extend(Prefix(key, i), x)).b

\* C4: on an effectively unlocked node, set(p, v) of a leaf v at a path p
\* (list or tuple) whose first segment is absent succeeds and autovivifies
\* the intermediate nodes, after which get and contains agree with it.
C4_Autovivify ==
  \A n \in Allocated : \A key \in KeyArgs : \A v \in Leaves :
    (/\ issequence(key) /\ Len(key.path) >= 1
     /\ locked(Cur, n) = "False"
     /\ ~DictHas(data[n], key.path[1])
     /\ DoSet(n, key, v).err # "OutOfNodes")
    => C4_Post(n, key, v, DoSet(n, key, v))

\* C5: on an effectively locked node every set and every delete raises
\* RuntimeError (the locked error), get of an absent key raises KeyError
\* and creates nothing, and get of a present key returns its value.
C5_LockedRejects ==
  \A n \in Allocated : locked(Cur, n) = "True" =>
    /\ \A key \in KeyArgs : \A v \in Values :
         /\ DoSet(n, key, v).err = "RuntimeError"
         /\ DoSet(n, key, v).s = Cur
    /\ \A key \in KeyArgs :
         /\ DoDel(n, key).err = "RuntimeError"
         /\ DoDel(n, key).s = Cur
    /\ \A k \in Keys : \A key \in SlotKeys(k) :
         IF DictHas(data[n], k)
         THEN /\ DoGet(n, key).err = ""
              /\ DoGet(n, key).ret = DictGet(data[n], k)
              /\ DoGet(n, key).s = Cur
         ELSE /\ DoGet(n, key).err = "KeyError"
              /\ DoGet(n, key).s = Cur

\* A locked node holding one key and lacking another, on which the calls
\* behave as C5 says.
C5_Witness ==
  \E n \in Allocated : \E k1, k2 \in Keys :
    /\ locked(Cur, n) = "True"
    /\ DictHas(data[n], k1) /\ IsNode(DictGet(data[n], k1))
    /\ ~DictHas(data[n], k2)
    /\ DoGet(n, Plain(k2)).err = "KeyError"
    /\ DoGet(n, Plain(k1)).ret = DictGet(data[n], k1)
    /\ DoSet(n, List(<<k2, k1>>), 11).err = "RuntimeError"
    /\ DoDel(n, Plain(k1)).err = "RuntimeError"

\* The i-th node up the parent links of n in heap s (None past the top).
RECURSIVE Anc(_, _, _)
Anc(s, n, i) == IF i = 0 \/ n = None THEN n ELSE Anc(s, s.parent[n], i - 1)

Explicit(s, n) == s.locked[n] \in {"True", "False"}

Hops == 0..(MaxNodes - 1)

\* The effective lock state as the data model defines it: the flag of the
\* nearest node up the chain (the node included) whose flag is explicit,
\* unlocked when the chain ends at a root with every flag unset, and
\* undefined when the chain is an all-unset cycle.
EffectiveLock(s, n) ==
  IF \E i \in Hops : Anc(s, n, i) # None /\ Explicit(s, Anc(s, n, i))
  THEN LET i == CHOOSE i \in Hops :
                  /\ Anc(s, n, i) # None /\ Explicit(s, Anc(s, n, i))
                  /\ \A j \in 0..(i - 1) : ~Explicit(s, Anc(s, n, j))
       IN s.locked[Anc(s, n, i)]
  ELSE IF \E i \in Hops : Anc(s, n, i) # None /\ s.parent[Anc(s, n, i)] = None
    THEN "False"
    ELSE "RecursionError"

\* m is n or hangs below n with every flag strictly below n unset.
InheritsFrom(s, m, n) ==
  \E i \in Hops :
    /\ Anc(s, m, i) = n
    /\ \A j \in 0..(i - 1) : ~Explicit(s, Anc(s, m, j))

\* What C6 says of one lock() or unlock() on n, s2 being the heap after it
\* and b the flag it sets.
C6_Step(s2, n, b) ==
  /\ s2 = [Cur EXCEPT !.locked[n] = b]
  /\ \A m \in Allocated :
       IF InheritsFrom(Cur, m, n) THEN locked(s2, m) = b
       ELSE locked(s2, m) = locked(Cur, m)

\* C6: the locked property of every node is its effective lock state; and
\* lock()/unlock() on a node sets that node's flag only, flips every node
\* that inherits from it and leaves every other node's state as it was.
C6_LockInheritance ==
  \A n \in Allocated :
    /\ locked(Cur, n) = EffectiveLock(Cur, n)
    /\ C6_Step(lock(Cur, n), n, "True")
    /\ C6_Step(unlock(Cur, n), n, "False")

\* A locked root, an unset child that reads locked, and below it a node
\* explicitly unlocked that unlocking the root does not touch.
C6_Witness ==
  \E n, m, d \in Allocated :
    /\ parent[n] = None /\ parent[m] = n /\ parent[d] = m
    /\ _locked[n] = "True" /\ _locked[m] = "None" /\ _locked[d] = "False"
    /\ locked(Cur, m) = "True" /\ locked(Cur, d) = "False"
    /\ locked(unlock(Cur, n), m) = "False"
    /\ locked(lock(Cur, m), d) = "False"

\* C7: contains([]) and set([], v) both raise ValueError (the invalid-path
\* error) on every node, locked or not, and change nothing.
C7_EmptyPathUniform ==
  \A n \in Allocated : \A v \in Values :
    /\ DoIn(n, List(<<>>)).err = "ValueError"
    /\ DoIn(n, List(<<>>)).s = Cur
    /\ DoSet(n, List(<<>>), v).err = "ValueError"
    /\ DoSet(n, List(<<>>), v).s = Cur

\* Every chain of parent links ends at a node with no parent.
Acyclic(s) == \A n \in 1..s.next : Anc(s, n, MaxNodes) = None

\* The node with no parent that the parent links of n lead to.
TopAncestor(s, n) ==
  Anc(s, n, CHOOSE i \in Hops :
              Anc(s, n, i) # None /\ s.parent[Anc(s, n, i)] = None)

\* C8: wherever the parent links lead to a top-level ancestor, root() of
\* every node returns that ancestor (the node itself when it has no parent).
C8_RootIsTop ==
  Acyclic(Cur) =>
    \A n \in Allocated :
      /\ root(Cur, n).err = ""
      /\ root(Cur, n).ret = TopAncestor(Cur, n)

\* The addresses below n that end at a leaf, none longer than the heap is
\* large.
LeafAddrs(s, n) ==
  {a \in SeqsUpTo(s.next) : a # <<>> /\ IsLeaf(Descend(s, n, a, Len(a)))}

\* a1 comes before a2 in the depth-first, insertion-ordered walk from n: at
\* the first segment where they part, a1's key was inserted earlier.
Before(s, n, a1, a2) ==
  \E j \in 1..Len(a1) :
    /\ j <= Len(a2)
    /\ SubSeq(a1, 1, j - 1) = SubSeq(a2, 1, j - 1)
    /\ a1[j] # a2[j]
    /\ DictIdx(s.data[Descend(s, n, a1, j - 1)], a1[j])
         < DictIdx(s.data[Descend(s, n, a1, j - 1)], a2[j])

\* g is the deep, addressed listing of n that C9 describes.
C9_Listing(s, n, g) ==
  /\ g.err = ""
  /\ Len(g.out) = Cardinality(LeafAddrs(s, n))
  /\ {g.out[i].at : i \in 1..Len(g.out)} = LeafAddrs(s, n)
  /\ \A i \in 1..Len(g.out) :
       g.out[i].v = Descend(s, n, g.out[i].at, Len(g.out[i].at))
  /\ \A i, j \in 1..Len(g.out) :
       i < j => Before(s, n, g.out[i].at, g.out[j].at)

\* C9: items(deep=True, return_address=True) on any node yields one pair
\* per leaf below it, with the leaf's address, depth-first in insertion
\* order, and no node.
C9_DeepItems ==
  \A n \in Allocated : C9_Listing(Cur, n, items(Cur, n, TRUE, TRUE))

\* The tree of the documentation, built on an empty unlocked node r of heap
\* s by set([a,b,c], 11), set([a,b,d], 12), set([e], 13): whether the three
\* calls returned, and the heap they leave.
DocTree(s, r) ==
  LET d1 == __setitem__(s, r, List(<<"a", "b", "c">>), 11)
      d2 == __setitem__(d1.s, r, List(<<"a", "b", "d">>), 12)
      d3 == __setitem__(d2.s, r, List(<<"e">>), 13)
  IN [built |-> /\ s.data[r] = <<>>
                /\ locked(s, r) = "False"
                /\ d1.err = "" /\ d2.err = "" /\ d3.err = "",
      s |-> d3.s]

\* On the documentation's tree s3 containers() yields the nodes at [a] and
\* [a, b] in that order, and only the node at [a] when deep is false.
C10_DocTree(s3, r) ==
  LET a == Descend(s3, r, <<"a">>, 1)
      b == Descend(s3, r, <<"a", "b">>, 2)
  IN /\ IsNode(a) /\ IsNode(b) /\ a # b
     /\ containers(s3, r, FALSE, TRUE) = Gen(<<a, b>>, "")
     /\ containers(s3, r, FALSE, FALSE) = Gen(<<a>>, "")

\* The entries of n that are nodes, in insertion order.
NodeEntries(s, n) ==
  SelectSeq([i \in 1..Len(s.data[n]) |-> s.data[n][i].v], IsNode)

\* m is stored at some depth below n.
Below(s, n, m) ==
  \E a \in SeqsUpTo(s.next) : a # <<>> /\ Descend(s, n, a, Len(a)) = m

\* inclusive=True puts the queried node in front of what inclusive=False
\* yields; deep=False yields the direct node entries; what is yielded is
\* stored below the queried node.
C10_General(n) ==
  /\ \A deep \in BOOLEAN :
       LET with == containers(Cur, n, TRUE, deep)
           without == containers(Cur, n, FALSE, deep)
       IN /\ with.out = <<n>> \o without.out
          /\ with.err = without.err
          /\ \A i \in 1..Len(without.out) : Below(Cur, n, without.out[i])
  /\ containers(Cur, n, FALSE, FALSE) = Gen(NodeEntries(Cur, n), "")

HoldsNode(s, m) == \E i \in 1..Len(s.data[m]) : IsNode(s.data[m][i].v)

\* Every node that containers() yields from below n holds a node itself.
YieldsParentsOnly(s, n) ==
  \A deep \in BOOLEAN :
    \A i \in 1..Len(containers(s, n, FALSE, deep).out) :
      HoldsNode(s, containers(s, n, FALSE, deep).out[i])

C19_ParentAcyclic ==
  \A n \in Allocated :
    /\ Anc(Cur, n, MaxNodes) = None
    /\ depth(Cur, n).err = ""
    /\ address(Cur, n).err = ""
    /\ root(Cur, n).err = ""
    /\ locked(Cur, n) # "RecursionError"
    /\ items(Cur, n, TRUE, TRUE).err = ""

\* C15: contains(path) for a non-empty list path returns a boolean on every
\* node, locked or not, changes nothing, and is true exactly when descending
\* segment by segment finds every segment present: false as well when a
\* leaf is in the way of the remaining segments.
C15_ContainsPure ==
  \A n \in Allocated : \A path \in SeqsUpTo(MaxLen) \ {<<>>} :
    /\ DoIn(n, List(path)).err = ""
    /\ DoIn(n, List(path)).s = Cur
    /\ DoIn(n, List(path)).b = (Descend(Cur, n, path, Len(path)) # None)

\* The states in which the client still makes calls.
Calling == steps < MaxSteps

\* The exceptions that stand for LockedError, KeyNotFoundError,
\* InvalidPathError and InvalidKeyTypeError.
Failures == {"RuntimeError", "KeyError", "ValueError", "TypeError"}

C14_LockedIntermediate ==
  Calling =>
    \A n \in Allocated : \A k1, k2 \in Keys : \A kind \in {"list", "tuple"} :
      LET m == IF DictHas(data[n], k1) THEN DictGet(data[n], k1) ELSE None
          key == [kind |-> kind, path |-> <<k1, k2>>]
      IN (/\ IsNode(m)
          /\ locked(Cur, n) = "False"
          /\ locked(Cur, m) = "True") =>
           /\ \A v \in Values :
                /\ DoSet(n, key, v).err = "RuntimeError"
                /\ DoSet(n, key, v).s = Cur
           /\ ~DictHas(data[m], k2) =>
                /\ DoGet(n, key).err = "KeyError"
                /\ DoGet(n, key).s = Cur

\* An unlocked root whose child is locked and lacks a key: the path set
\* and the path get through the child are both refused.
C14_Witness ==
  /\ Calling
  /\ \E n, m \in Allocated : \E k1, k2 \in Keys :
       /\ parent[n] = None /\ parent[m] = n
       /\ locked(Cur, n) = "False" /\ locked(Cur, m) = "True"
       /\ DictHas(data[n], k1) /\ DictGet(data[n], k1) = m
       /\ ~DictHas(data[m], k2)
       /\ DoSet(n, Tuple(<<k1, k2>>), 12).err = "RuntimeError"
       /\ DoGet(n, Tuple(<<k1, k2>>)).err = "KeyError"

\* A node as the constructor leaves it, hanging under p with key k.
FreshUnder(s, m, p, k) ==
  /\ s.data[m] = <<>>
  /\ s.locked[m] = "None"
  /\ s.parent[m] = p
  /\ s.key[m] = k

\* What C16 says of get(key) on node n for a one- or two-segment key whose
\* segments are present or missing (no leaf in the way): r is the result.
C16_Post(n, key, r) ==
  LET len == Len(key.path)
      k1 == key.path[1]
      had1 == DictHas(data[n], k1)
      m1 == IF had1 THEN DictGet(data[n], k1) ELSE next + 1
      had2 == had1 /\ IsNode(m1) /\ DictHas(data[m1], key.path[len])
      made == (IF had1 THEN 0 ELSE 1)
                + (IF len = 2 /\ ~had2 THEN 1 ELSE 0)
  IN /\ r.err = ""
     /\ r.s.next = next + made
     /\ made = 0 => r.s = Cur
     /\ ~had1 => /\ FreshUnder(r.s, m1, n, k1) \/ len = 2
                 /\ r.s.parent[m1] = n /\ r.s.key[m1] = k1
                 /\ DictGet(r.s.data[n], k1) = m1
     /\ len = 1 => r.ret = DictGet(r.s.data[n], k1)
     /\ len = 2 =>
          /\ r.ret = DictGet(r.s.data[m1], key.path[2])
          /\ ~had2 => FreshUnder(r.s, r.ret, m1, key.path[2])
     /\ __getitem__(r.s, n, key).err = ""
     /\ __getitem__(r.s, n, key).ret = r.ret
     /\ __getitem__(r.s, n, key).s = r.s

\* C16: on an effectively unlocked node get(key) returns the stored value
\* and changes nothing when every segment is present, and otherwise creates
\* one empty node with unset flag per missing segment, attached under that
\* segment, and returns the last one; a second get returns the same value.
C16_GetAutovivifies ==
  Calling =>
    \A n \in Allocated : \A key \in KeyArgs :
      LET k1 == key.path[1]
          m1 == IF DictHas(data[n], k1) THEN DictGet(data[n], k1) ELSE None
      IN (/\ Len(key.path) >= 1
          /\ locked(Cur, n) = "False"
          /\ next + Len(key.path) <= MaxNodes
          /\ Len(key.path) = 2 /\ DictHas(data[n], k1) =>
               IsNode(m1) /\ locked(Cur, m1) = "False") =>
           C16_Post(n, key, DoGet(n, key))

\* The nodes of heap s are in s2 what they are in s.
SameTree(s, s2) ==
  \A m \in 1..s.next :
    /\ s2.data[m] = s.data[m]
    /\ s2.parent[m] = s.parent[m]
    /\ s2.root[m] = s.root[m]
    /\ s2.key[m] = s.key[m]
    /\ s2.locked[m] = s.locked[m]

\* set(key, None) on an unlocked node for a key naming one slot: the slot is
\* removed and the node it held detached, or nothing changes when absent.
C17_OneSlot ==
  \A n \in Allocated : \A k \in Keys : \A key \in SlotKeys(k) :
    LET x == IF DictHas(data[n], k) THEN DictGet(data[n], k) ELSE None
        r == DoSet(n, key, None)
    IN (locked(Cur, n) = "False" /\ next < MaxNodes) =>
         /\ r.err = ""
         /\ IF DictHas(data[n], k)
            THEN /\ ~DictHas(r.s.data[n], k)
                 /\ IsNode(x) => Detached(r.s, x)
            ELSE SameTree(Cur, r.s)

\* No entry of any node holds None.
C17_NoNoneStored ==
  \A a \in Allocated : \A i \in 1..Len(data[a]) : data[a][i].v # None

\* A set(key, None) that returns leaves no node it created stored anywhere.
C17_NoNodeLeft ==
  \A n \in Allocated : \A key \in KeyArgs :
    LET r == DoSet(n, key, None)
    IN r.err = "" =>
         \A a \in 1..r.s.next : \A i \in 1..Len(r.s.data[a]) :
           r.s.data[a][i].v \notin (next + 1)..r.s.next

\* C17: assigning None to a plain key or a one-segment path of an unlocked
\* node deletes the slot (detaching a node it held) and changes nothing when
\* the slot is absent; no entry ever holds None, and no assignment of None
\* leaves behind a node it created.
C17_NoneDeletes ==
  C17_NoNoneStored /\ (Calling => C17_OneSlot /\ C17_NoNodeLeft)

\* C20: a step of the client leaves the entries of every node that is
\* effectively locked before the step exactly as they were, whichever node
\* the call was made on.
C20_LockedFrozen ==
  [][\A n \in Allocated : locked(Cur, n) = "True" => data'[n] = data[n]]_vars

\* A locked node with an entry below an unlocked root: a path set through
\* the root and a delete on the node are refused, while the root itself
\* still takes a new entry.
C20_Witness ==
  /\ Calling
  /\ \E n, m \in Allocated : \E k1, k2 \in Keys :
       /\ parent[m] = n /\ k1 # k2
       /\ locked(Cur, n) = "False" /\ locked(Cur, m) = "True"
       /\ DictHas(data[n], k1) /\ DictGet(data[n], k1) = m
       /\ data[m] # <<>>
       /\ DoSet(n, List(<<k1, k2>>), 11).s.data[m] = data[m]
       /\ DoDel(m, Plain(k1)).s.data[m] = data[m]
       /\ DoSet(n, Plain(k2), 11).err = ""
       /\ DoSet(n, Plain(k2), 11).s.data[n] # data[n]

\* C18: a node without parent has the empty address and depth 0; a node
\* with a parent has its parent's address followed by its own key, as many
\* segments as its depth, and descending from its top-level ancestor along
\* its address arrives at the node itself.
C18_AddressDepth ==
  Acyclic(Cur) =>
    \A n \in Allocated :
      /\ address(Cur, n).err = "" /\ depth(Cur, n).err = ""
      /\ Len(address(Cur, n).ret) = depth(Cur, n).ret
      /\ IF parent[n] = None
         THEN address(Cur, n).ret = <<>> /\ depth(Cur, n).ret = 0
         ELSE /\ address(Cur, n).ret
                   = Append(address(Cur, parent[n]).ret, _key[n])
              /\ depth(Cur, n).ret = depth(Cur, parent[n]).ret + 1
              /\ Descend(Cur, TopAncestor(Cur, n), address(Cur, n).ret,
                         Len(address(Cur, n).ret)) = n

\* The value c stored under k in node p of heap s is the plain mapping m
\* converted: a node attached to p under k whose entries are those of m, a
\* nested mapping among them converted in turn.
RECURSIVE Converted(_, _, _, _, _)
Converted(s, c, p, k, m) ==
  /\ IsNode(c)
  /\ s.parent[c] = p
  /\ s.key[c] = k
  /\ Len(s.data[c]) = Len(MapEntries(m))
  /\ \A j \in 1..Len(MapEntries(m)) :
       /\ s.data[c][j].k = MapEntries(m)[j].k
       /\ IF MapEntries(m)[j].v \in Maps
          THEN Converted(s, s.data[c][j].v, c, MapEntries(m)[j].k,
                         MapEntries(m)[j].v)
          ELSE s.data[c][j].v = MapEntries(m)[j].v

\* C12: a node constructed from a mapping and named values holds every
\* nested mapping as an attached node, converted at every depth, has every
\* node passed by name attached under that name, and has itself the parent
\* that was given, none and no key when none was given.
C12_FromNested ==
  \A args \in ArgsIn : \A kwargs \in KwargsIn : \A par \in {None} \cup Allocated :
    LET r == __init__args(Cur, args, kwargs, par, par, "None")
        new == next + 1
    IN next < MaxNodes =>
         /\ r.err = "" /\ r.ret = new
         /\ r.s.parent[new] = par
         /\ par = None => r.s.key[new] = NoKey
         /\ \A i \in 1..Len(kwargs) :
              IsNode(kwargs[i].v) =>
                /\ r.s.parent[kwargs[i].v] = new
                /\ r.s.key[kwargs[i].v] = kwargs[i].k
                /\ DictGet(r.s.data[new], kwargs[i].k) = kwargs[i].v
         /\ \A i \in 1..Len(args) :
              (args[i].v \in Maps /\ ~DictHas(kwargs, args[i].k)) =>
                Converted(r.s, DictGet(r.s.data[new], args[i].k), new,
                          args[i].k, args[i].v)

\* C11: the copy of any node made from its __reduce__ lists, deep and with
\* addresses, what the original lists, in the same order; the copy has no
\* parent; every node stored in a copied node is a copy, and the copy of a
\* node below the original has the copy of that node's parent as its parent.
C11_RoundTrip ==
  Calling =>
    \A n \in Allocated :
      LET r == __reduce__(Cur, n)
      IN /\ r.err = ""
         /\ items(Cur, n, TRUE, TRUE).err = ""
         /\ items(r.s, r.ret, TRUE, TRUE) = items(Cur, n, TRUE, TRUE)
         /\ r.s.parent[r.ret] = None
         /\ \A m \in Allocated : r.memo[m] # None =>
              /\ \A i \in 1..Len(r.s.data[r.memo[m]]) :
                   IsNode(r.s.data[r.memo[m]][i].v) =>
                     r.s.data[r.memo[m]][i].v > next
              /\ (m # n /\ parent[m] # None) =>
                   /\ r.s.parent[r.memo[m]] > next
                   /\ r.memo[parent[m]] # None =>
                        r.s.parent[r.memo[m]] = r.memo[parent[m]]

====
